---------------------------- MODULE Spec2Model ----------------------------
(***************************************************************************)
(* A model of src/index.tsx: the beekeeping record keeper.                 *)
(*                                                                         *)
(* The program is single threaded and event driven.  Every synchronous     *)
(* handler is one action; an async handler is one action up to each await  *)
(* and one action per continuation.  The variables are the in-memory       *)
(* store, the localStorage entry, the parts of the document the handlers   *)
(* read or write, and the AI requests in flight.                           *)
(***************************************************************************)
EXTENDS Integers, Sequences, FiniteSets, TLC

(***************************************************************************)
(* Bounds of the model.                                                    *)
(***************************************************************************)
MaxTime     == 1   \* Date.now() ranges over 0..MaxTime
MaxHives    == 2   \* hives in the store
MaxReports  == 2   \* inspection reports in the store, all hives together
MaxRequests == 2   \* AI handler invocations that pass their guard
MaxReads    == 1   \* preview FileReaders in flight

VARIABLES
    now,                \* the clock read by Date.now() and new Date()
    state,              \* let state: AppState
    storage,            \* localStorage['beekeepingAppState'] (<<>> when absent)
    hivesList,          \* content of #hives-list
    inspectionHiveId,   \* value of the hidden field #inspection-hive-id
    clickedCard,        \* position of the card whose button set the hidden field
    addHiveModal,       \* #add-hive-modal has class 'show'
    addInspectionModal, \* #add-inspection-modal has class 'show'
    inspectionForm,     \* the controls of #add-inspection-form
    feedingAmountGroup, \* style.display of #feeding-amount-group
    addHiveCount,       \* completed runs of handleAddHive
    currentView,        \* the .view that has class 'active'
    hiveSelect,         \* options of #hive-select-for-image
    uploadBtnDisabled,  \* #upload-image-btn.disabled
    files,              \* #image-upload-input.files (<<>> when empty)
    imagePreview,       \* #image-preview: src and display
    analyzeBtnDisabled, \* #analyze-image-btn.disabled
    previewReads,       \* FileReaders of handleImagePreview still reading
    spinner,            \* style.display of #loading-spinner
    adviceResult,       \* textContent of #ai-advice-result
    imageResult,        \* textContent of #image-analysis-result
    lastAlert,          \* the message of the last alert() (<<>>: none yet)
    req,                \* the invocations of the two async handlers
    apiCalls,           \* calls of ai.models.generateContent issued
    resolvedOrder,      \* the invocations that have finished, in order
    lastEvent           \* the handler that ran last ("ui": any other step)

storeVars == <<now, state, storage, hivesList, inspectionHiveId, clickedCard,
               addHiveModal, addInspectionModal, inspectionForm,
               feedingAmountGroup, addHiveCount>>
viewVars  == <<currentView, hiveSelect, uploadBtnDisabled>>
imageVars == <<files, imagePreview, analyzeBtnDisabled, previewReads>>
aiVars    == <<spinner, adviceResult, imageResult, lastAlert, req, apiCalls,
               resolvedOrder>>
vars      == <<storeVars, viewVars, imageVars, aiVars, lastEvent>>

(***************************************************************************)
(* Values.                                                                 *)
(***************************************************************************)
Views == {"hives-view", "ai-view", "image-view", "faq-view"}

HiveNames     == {"Petek A"}
HiveLocations == {"Baki"}

\* the controls of the inspection form as the document resets them
FormReset == [queen |-> "", disease |-> "", eggs |-> "", honeyStores |-> "",
              feeding |-> "", feedingAmount |-> "", notes |-> ""]

\* contents the user can give the inspection form (all required controls set)
FormInputs ==
    { [queen |-> "yes", disease |-> "no", eggs |-> "yes", honeyStores |-> "good",
       feeding |-> "yes", feedingAmount |-> "1kg", notes |-> ""],
      [queen |-> "no", disease |-> "yes", eggs |-> "no", honeyStores |-> "low",
       feeding |-> "no", feedingAmount |-> "", notes |-> "zeif"] }

RequiredFields == {"queen", "disease", "eggs", "honeyStores", "feeding"}


(***************************************************************************)
(* Identifiers and dates.                                                  *)
(***************************************************************************)
\* `hive_${Date.now()}` and `report_${Date.now()}`
MakeId(prefix, ms) == <<prefix, ms>>

\* new Date().toISOString() and new Date(date).getTime()
ToISOString(ms) == <<"ISO", ms>>
GetTime(date)   == date[2]

MsPerDay == 86400000
\* toLocaleDateString with day, month and year: the day the instant falls in
ToLocaleDateString(date) == GetTime(date) \div MsPerDay

(***************************************************************************)
(* JSON.stringify / JSON.parse of the state.  Every field of the state is  *)
(* a string or an array, so the text holds the whole tree.                 *)
(***************************************************************************)
JSONstringify(s) == <<"json", s>>
JSONparse(text)  == text[2]

(***************************************************************************)
(* hive.reports.sort((a, b) => getTime(b.date) - getTime(a.date)):         *)
(* Array.prototype.sort is stable and sorts in place.                      *)
(***************************************************************************)
\* the comparator: negative when a goes first
CompareReports(a, b) == GetTime(b.date) - GetTime(a.date)

\* an insertion that puts x before its equals: a sort that is not stable
InsertReportUnstable(s, x) ==
    LET keep == {k \in 0..Len(s) :
                    \A j \in 1..k : CompareReports(s[j], x) < 0}
        k    == CHOOSE m \in keep : \A n \in keep : n <= m
    IN  SubSeq(s, 1, k) \o <<x>> \o SubSeq(s, k + 1, Len(s))

\* x into the sorted s, after every element that does not go after x
InsertReport(s, x) ==
    LET keep == {k \in 0..Len(s) :
                    \A j \in 1..k : CompareReports(s[j], x) <= 0}
        k    == CHOOSE m \in keep : \A n \in keep : n <= m
    IN  SubSeq(s, 1, k) \o <<x>> \o SubSeq(s, k + 1, Len(s))

RECURSIVE SortReports(_)
SortReports(rs) ==
    IF rs = <<>> THEN <<>>
    ELSE InsertReport(SortReports(SubSeq(rs, 1, Len(rs) - 1)), rs[Len(rs)])

\* state.hives after renderHivesView has sorted every hive's reports in place
SortedHives(hives) ==
    [i \in 1..Len(hives) |->
        [hives[i] EXCEPT !.reports = SortReports(hives[i].reports)]]

(***************************************************************************)
(* renderHivesView: the content of #hives-list.                            *)
(***************************************************************************)
RenderReport(r) ==
    [header      |-> ToLocaleDateString(r.date),
     queen       |-> IF r.queen = "yes" THEN "Gorundu" ELSE "Gorunmedi",
     disease     |-> IF r.disease = "yes" THEN "Elamet var" ELSE "Elamet yoxdur",
     eggs        |-> IF r.eggs = "yes" THEN "Var" ELSE "Yoxdur",
     honeyStores |-> r.honeyStores,
     feeding     |-> IF r.feeding = "yes"
                     THEN <<"Beli", IF r.feedingAmount # "" THEN r.feedingAmount
                                    ELSE "qeyd edilmeyib">>
                     ELSE <<"Xeyr">>,
     notes       |-> IF r.notes # "" THEN <<r.notes>> ELSE <<>>]

RenderCard(hive) ==
    [name     |-> hive.name,
     location |-> hive.location,
     hiveId   |-> hive.id,
     reports  |-> [j \in 1..Len(hive.reports) |-> RenderReport(hive.reports[j])]]

\* the list built from hives whose reports are already sorted
HivesListOf(hives) ==
    IF Len(hives) = 0
    THEN [placeholder |-> TRUE, cards |-> <<>>]
    ELSE [placeholder |-> FALSE,
          cards |-> [i \in 1..Len(hives) |-> RenderCard(hives[i])]]

\* renderHivesView as a step: the store with its reports sorted, and the list
RenderHivesView(hives) ==
    /\ state' = [state EXCEPT !.hives = SortedHives(hives)]
    /\ hivesList' = HivesListOf(SortedHives(hives))

\* a lookup that falls back to the first hive when no identifier matches
FindHiveOrFirst(hives, hiveId) ==
    IF \E i \in 1..Len(hives) : hives[i].id = hiveId
    THEN CHOOSE i \in 1..Len(hives) :
            /\ hives[i].id = hiveId
            /\ \A j \in 1..(i - 1) : hives[j].id # hiveId
    ELSE IF Len(hives) > 0 THEN 1 ELSE 0

\* state.hives.find(h => h.id === hiveId): the first position, 0 when none
FindHive(hives, hiveId) ==
    IF \E i \in 1..Len(hives) : hives[i].id = hiveId
    THEN CHOOSE i \in 1..Len(hives) :
            /\ hives[i].id = hiveId
            /\ \A j \in 1..(i - 1) : hives[j].id # hiveId
    ELSE 0

TotalReports(hives) ==
    LET RECURSIVE Sum(_)
        Sum(i) == IF i = 0 THEN 0 ELSE Len(hives[i].reports) + Sum(i - 1)
    IN  Sum(Len(hives))

(***************************************************************************)
(* The state after initializeApp on a browser with nothing stored.         *)
(***************************************************************************)
NoPreview == [src |-> <<>>, display |-> "none"]

\* The document as its markup gives it before any handler has run: both
\* modals closed, the forms empty, the spinner hidden, the regions empty and
\* the analyze button disabled until a file has been previewed.
DocumentInit ==
    /\ inspectionHiveId = <<>>
    /\ clickedCard = 0
    /\ addHiveModal = FALSE
    /\ addInspectionModal = FALSE
    /\ inspectionForm = FormReset
    /\ feedingAmountGroup = "none"
    /\ hiveSelect = <<>>
    /\ uploadBtnDisabled = FALSE
    /\ files = <<>>
    /\ imagePreview = NoPreview
    /\ analyzeBtnDisabled = TRUE
    /\ spinner = "none"
    /\ adviceResult = <<>>
    /\ imageResult = <<>>

Init ==
    /\ now = 0
    /\ state = [hives |-> <<>>]
    /\ storage = <<>>
    /\ hivesList = HivesListOf(<<>>)
    /\ currentView = "hives-view"
    /\ DocumentInit
    /\ addHiveCount = 0
    /\ previewReads = <<>>
    /\ lastAlert = <<>>
    /\ req = <<>>
    /\ apiCalls = 0
    /\ resolvedOrder = <<>>
    /\ lastEvent = "load"

(***************************************************************************)
(* The clock.                                                              *)
(***************************************************************************)
Tick ==
    /\ now < MaxTime
    /\ now' = now + 1
    /\ lastEvent' = "ui"
    /\ UNCHANGED <<state, storage, hivesList, inspectionHiveId, clickedCard,
                   addHiveModal, addInspectionModal, inspectionForm,
                   feedingAmountGroup, addHiveCount>>
    /\ UNCHANGED <<viewVars, imageVars, aiVars>>

(***************************************************************************)
(* Modals.                                                                 *)
(***************************************************************************)
\* click on #add-hive-fab
OpenAddHiveModal ==
    /\ addHiveModal' = TRUE
    /\ lastEvent' = "ui"
    /\ UNCHANGED <<now, state, storage, hivesList, inspectionHiveId,
                   clickedCard, addInspectionModal, inspectionForm,
                   feedingAmountGroup, addHiveCount>>
    /\ UNCHANGED <<viewVars, imageVars, aiVars>>

\* click on a .close-btn: both modals are closed
CloseBtnClick ==
    /\ addHiveModal \/ addInspectionModal
    /\ addHiveModal' = FALSE
    /\ addInspectionModal' = FALSE
    /\ lastEvent' = "ui"
    /\ UNCHANGED <<now, state, storage, hivesList, inspectionHiveId,
                   clickedCard, inspectionForm, feedingAmountGroup,
                   addHiveCount>>
    /\ UNCHANGED <<viewVars, imageVars, aiVars>>

\* click on the surface of a shown modal, outside its dialog
WindowClick ==
    /\ \/ /\ addHiveModal
          /\ addHiveModal' = FALSE
          /\ UNCHANGED addInspectionModal
       \/ /\ addInspectionModal
          /\ addInspectionModal' = FALSE
          /\ UNCHANGED addHiveModal
    /\ lastEvent' = "ui"
    /\ UNCHANGED <<now, state, storage, hivesList, inspectionHiveId,
                   clickedCard, inspectionForm, feedingAmountGroup,
                   addHiveCount>>
    /\ UNCHANGED <<viewVars, imageVars, aiVars>>

\* click on the .add-inspection-btn of the i-th card
ClickAddInspection ==
    \E i \in 1..Len(hivesList.cards) :
        /\ inspectionHiveId' = hivesList.cards[i].hiveId
        /\ clickedCard' = i
        /\ addInspectionModal' = TRUE
        /\ lastEvent' = "ui"
        /\ UNCHANGED <<now, state, storage, hivesList, addHiveModal,
                       inspectionForm, feedingAmountGroup, addHiveCount>>
        /\ UNCHANGED <<viewVars, imageVars, aiVars>>

\* the user sets the controls of the inspection form; a change of the
\* feeding radio runs the listener on input[name="feeding"]
FillInspectionForm ==
    \E f \in FormInputs :
        /\ f # inspectionForm
        /\ inspectionForm' = f
        /\ feedingAmountGroup' =
              IF f.feeding # inspectionForm.feeding
              THEN (IF f.feeding = "yes" THEN "block" ELSE "none")
              ELSE feedingAmountGroup
        /\ lastEvent' = "ui"
        /\ UNCHANGED <<now, state, storage, hivesList, inspectionHiveId,
                       clickedCard, addHiveModal, addInspectionModal,
                       addHiveCount>>
        /\ UNCHANGED <<viewVars, imageVars, aiVars>>

(***************************************************************************)
(* handleAddHive.                                                          *)
(***************************************************************************)
NewHive(name, location, ms) ==
    [id |-> MakeId("hive", ms), name |-> name, location |-> location,
     reports |-> <<>>]

\* an assignment in place of the push
PushHiveReplacing(hives, hive) == <<hive>>

\* state.hives.push(newHive)
PushHive(hives, hive) == Append(hives, hive)

HandleAddHive ==
    \E name \in HiveNames, location \in HiveLocations :
        LET hives1 == PushHive(state.hives, NewHive(name, location, now))
        IN  /\ Len(state.hives) < MaxHives
            /\ storage' = JSONstringify([state EXCEPT !.hives = hives1])
            /\ RenderHivesView(hives1)
            /\ addHiveModal' = FALSE
            /\ addHiveCount' = addHiveCount + 1
            /\ lastEvent' = "submitHive"
            /\ UNCHANGED <<now, inspectionHiveId, clickedCard,
                           addInspectionModal, inspectionForm,
                           feedingAmountGroup>>
            /\ UNCHANGED <<viewVars, imageVars, aiVars>>

(***************************************************************************)
(* handleAddInspection.                                                    *)
(***************************************************************************)
NewReport(form, ms) ==
    [id            |-> MakeId("report", ms),
     date          |-> ToISOString(ms),
     queen         |-> form.queen,
     disease       |-> form.disease,
     eggs          |-> form.eggs,
     honeyStores   |-> form.honeyStores,
     feeding       |-> form.feeding,
     feedingAmount |-> form.feedingAmount,
     notes         |-> form.notes]

\* hive.reports.push(newReport) on the hive at position i
PushReport(hives, i, report) ==
    [hives EXCEPT ![i].reports = Append(@, report)]

\* the submit event reaches the handler once the required controls are set
FormValid(form) == \A k \in RequiredFields : form[k] # ""

HandleAddInspection ==
    LET i == FindHive(state.hives, inspectionHiveId)
    IN  /\ FormValid(inspectionForm)
        /\ lastEvent' = "submitInspection"
        /\ \/ /\ i = 0
              /\ UNCHANGED storeVars
           \/ /\ i # 0
              /\ TotalReports(state.hives) < MaxReports
              /\ LET hives1 == PushReport(state.hives, i,
                                          NewReport(inspectionForm, now))
                 IN  /\ storage' = JSONstringify([state EXCEPT !.hives = hives1])
                     /\ RenderHivesView(hives1)
              /\ addInspectionModal' = FALSE
              /\ inspectionForm' = FormReset
              /\ feedingAmountGroup' = "none"
              /\ UNCHANGED <<now, inspectionHiveId, clickedCard, addHiveModal,
                             addHiveCount>>
        /\ UNCHANGED <<viewVars, imageVars, aiVars>>

(***************************************************************************)
(* navigateTo and the renderers of the other views.                        *)
(***************************************************************************)
\* renderImageView: one option per hive
HiveOptions(hives) ==
    [i \in 1..Len(hives) |-> [value |-> hives[i].id, text |-> hives[i].name]]

NavigateTo(viewId) ==
    /\ currentView' = viewId
    /\ lastEvent' = "navigate"
    /\ IF viewId = "hives-view"
       THEN RenderHivesView(state.hives)
       ELSE UNCHANGED <<state, hivesList>>
    /\ IF viewId = "image-view"
       THEN /\ hiveSelect' = HiveOptions(state.hives)
            /\ uploadBtnDisabled' = (Len(state.hives) = 0)
       ELSE UNCHANGED <<hiveSelect, uploadBtnDisabled>>
    /\ UNCHANGED <<now, storage, inspectionHiveId, clickedCard, addHiveModal,
                   addInspectionModal, inspectionForm, feedingAmountGroup,
                   addHiveCount>>
    /\ UNCHANGED <<imageVars, aiVars>>

\* click on the nav button of the hive list
NavigateToHives == NavigateTo("hives-view")

\* click on any nav button
Navigate == \E v \in Views : NavigateTo(v)

(***************************************************************************)
(* The page is loaded again: a fresh document, loadStateFromLocalStorage,  *)
(* navigateTo('hives-view').  Requests of the old page are gone.           *)
(***************************************************************************)
LoadState(saved) == IF saved # <<>> THEN JSONparse(saved) ELSE [hives |-> <<>>]

Reload ==
    /\ state' = [hives |-> SortedHives(LoadState(storage).hives)]
    /\ hivesList' = HivesListOf(SortedHives(LoadState(storage).hives))
    /\ inspectionHiveId' = <<>>
    /\ clickedCard' = 0
    /\ addHiveModal' = FALSE
    /\ addInspectionModal' = FALSE
    /\ inspectionForm' = FormReset
    /\ feedingAmountGroup' = "none"
    /\ currentView' = "hives-view"
    /\ hiveSelect' = <<>>
    /\ uploadBtnDisabled' = FALSE
    /\ files' = <<>>
    /\ imagePreview' = NoPreview
    /\ analyzeBtnDisabled' = TRUE
    /\ previewReads' = <<>>
    /\ spinner' = "none"
    /\ adviceResult' = <<>>
    /\ imageResult' = <<>>
    /\ req' = <<>>
    /\ resolvedOrder' = <<>>
    /\ lastEvent' = "load"
    /\ UNCHANGED <<now, storage, addHiveCount, lastAlert, apiCalls>>

(***************************************************************************)
(* The image input and handleImagePreview.                                 *)
(***************************************************************************)
Files == {"frame.jpg"}

\* FileReader.readAsDataURL: mime type and base64 payload, comma separated
ReadAsDataURL(file) == <<"data:image/jpeg;base64", file>>

\* result.split(',')[1]
Base64Part(dataUrl) == dataUrl[2]

RemoveAt(s, k) == SubSeq(s, 1, k - 1) \o SubSeq(s, k + 1, Len(s))

\* the user picks a file, or empties the selection, in the chooser opened
\* through #upload-image-btn; the change event runs handleImagePreview
ChangeImageInput ==
    \E f \in {<<>>} \cup {<<x>> : x \in Files} :
        /\ ~uploadBtnDisabled
        /\ f # files
        /\ files' = f
        /\ lastEvent' = "ui"
        /\ IF Len(f) > 0
           THEN /\ Len(previewReads) < MaxReads
                /\ previewReads' = Append(previewReads, f[1])
           ELSE UNCHANGED previewReads
        /\ UNCHANGED <<imagePreview, analyzeBtnDisabled>>
        /\ UNCHANGED <<storeVars, viewVars, aiVars>>

\* reader.onload of handleImagePreview
PreviewLoaded ==
    \E k \in 1..Len(previewReads) :
        /\ imagePreview' = [src |-> ReadAsDataURL(previewReads[k]),
                            display |-> "block"]
        /\ analyzeBtnDisabled' = FALSE
        /\ previewReads' = RemoveAt(previewReads, k)
        /\ lastEvent' = "ui"
        /\ UNCHANGED files
        /\ UNCHANGED <<storeVars, viewVars, aiVars>>

\* the preview reader fails: it has no onerror, nothing happens
PreviewFailed ==
    \E k \in 1..Len(previewReads) :
        /\ previewReads' = RemoveAt(previewReads, k)
        /\ lastEvent' = "ui"
        /\ UNCHANGED <<files, imagePreview, analyzeBtnDisabled>>
        /\ UNCHANGED <<storeVars, viewVars, aiVars>>

(***************************************************************************)
(* The two AI handlers.  req[i] is the i-th invocation that passed its     *)
(* guard: its kind, where it stands, and what it wrote when it finished.   *)
(***************************************************************************)

\* A text content is a tuple of its parts; the empty text is <<>>.
EmptyText   == <<>>
AdviceError == <<"Analiz zamani xeta bas verdi.">>
ImageError  == <<"Sekil analizi zamani xeta bas verdi.">>

NoDataAlert == <<"Analiz etmek ucun hec bir petek melumati yoxdur.">>
NoFileAlert == <<"Zehmet olmasa, analiz etmek ucun bir sekil secin.">>

\* response.text of the service to the i-th invocation
ResponseText(i) == <<"cavab", i>>

ErrorOf(kind) == IF kind = "advice" THEN AdviceError ELSE ImageError

\* a spinner that stays shown
ShowLoadingStuck(isLoading) == "flex"

\* a spinner that is never shown
ShowLoadingNever(isLoading) == "none"

\* showLoading: the display of #loading-spinner
ShowLoading(isLoading) == IF isLoading THEN "flex" ELSE "none"

\* handlers without their guards
NoGuardOnHives(hives) == FALSE
NoGuardOnFiles(f) == FALSE

\* state.hives.length === 0
NoHives(hives) == Len(hives) = 0

\* !input.files || input.files.length === 0
NoFiles(f) == Len(f) = 0

\* input.files[0]
FirstFile(f) == IF Len(f) > 0 THEN f[1] ELSE "undefined"

\* a write that keeps what the region already shows
WriteIfEmpty(old, text) == IF old = EmptyText THEN text ELSE old

\* resultContainer.textContent = ...
WriteResult(old, text) == text

Pending(r) == r.status \in {"reading", "calling"}

\* click on #get-ai-advice-btn
HandleGetAIAdvice ==
    /\ lastEvent' = "getAIAdvice"
    /\ \/ /\ NoHives(state.hives)
          /\ lastAlert' = NoDataAlert
          /\ UNCHANGED <<spinner, adviceResult, req, apiCalls>>
       \/ /\ ~NoHives(state.hives)
          /\ Len(req) < MaxRequests
          /\ spinner' = ShowLoading(TRUE)
          /\ adviceResult' = WriteResult(adviceResult, EmptyText)
          /\ req' = Append(req, [kind |-> "advice", status |-> "calling",
                                  payload |-> <<>>, outcome |-> EmptyText])
          /\ apiCalls' = apiCalls + 1
          /\ UNCHANGED lastAlert
    /\ UNCHANGED <<imageResult, resolvedOrder>>
    /\ UNCHANGED <<storeVars, viewVars, imageVars>>

\* click on #analyze-image-btn, which the browser delivers when it is enabled
HandleAnalyzeImage ==
    /\ ~analyzeBtnDisabled
    /\ lastEvent' = "analyzeImage"
    /\ \/ /\ NoFiles(files)
          /\ lastAlert' = NoFileAlert
          /\ UNCHANGED <<spinner, imageResult, req>>
       \/ /\ ~NoFiles(files)
          /\ Len(req) < MaxRequests
          /\ spinner' = ShowLoading(TRUE)
          /\ imageResult' = WriteResult(imageResult, EmptyText)
          /\ req' = Append(req, [kind |-> "image", status |-> "reading",
                                  payload |-> <<FirstFile(files)>>,
                                  outcome |-> EmptyText])
          /\ UNCHANGED lastAlert
    /\ UNCHANGED <<adviceResult, apiCalls, resolvedOrder>>
    /\ UNCHANGED <<storeVars, viewVars, imageVars>>

\* fileToBase64 resolves: the handler goes on and issues generateContent
FileReadDone ==
    \E i \in 1..Len(req) :
        /\ req[i].status = "reading"
        /\ req' = [req EXCEPT
                     ![i].status = "calling",
                     ![i].payload = <<Base64Part(ReadAsDataURL(@[1]))>>]
        /\ apiCalls' = apiCalls + 1
        /\ lastEvent' = "await"
        /\ UNCHANGED <<spinner, adviceResult, imageResult, lastAlert,
                       resolvedOrder>>
        /\ UNCHANGED <<storeVars, viewVars, imageVars>>

\* the end of an invocation: what it writes to its region, then finally
Finish(i, status, text) ==
    /\ req' = [req EXCEPT ![i].status = status, ![i].outcome = text]
    /\ IF req[i].kind = "advice"
       THEN /\ adviceResult' = WriteResult(adviceResult, text)
            /\ UNCHANGED imageResult
       ELSE /\ imageResult' = WriteResult(imageResult, text)
            /\ UNCHANGED adviceResult
    /\ spinner' = ShowLoading(FALSE)
    /\ resolvedOrder' = Append(resolvedOrder, i)
    /\ UNCHANGED <<lastAlert, apiCalls>>
    /\ UNCHANGED <<storeVars, viewVars, imageVars>>

\* fileToBase64 rejects (reader.onerror): catch, finally
FileReadError ==
    \E i \in 1..Len(req) :
        /\ req[i].status = "reading"
        /\ Finish(i, "failed", ErrorOf(req[i].kind))
        /\ lastEvent' = "await"

\* generateContent resolves with a text
RequestResolved ==
    \E i \in 1..Len(req) :
        /\ req[i].status = "calling"
        /\ Finish(i, "done", ResponseText(i))
        /\ lastEvent' = "await"

\* generateContent rejects (network error, API error, unreadable response)
RequestRejected ==
    \E i \in 1..Len(req) :
        /\ req[i].status = "calling"
        /\ Finish(i, "failed", ErrorOf(req[i].kind))
        /\ lastEvent' = "await"

(***************************************************************************)
(* Specifications.  Spec: the store, its persistence and the hive list.    *)
(* SpecAI: the views, the image input and the AI requests.                 *)
(***************************************************************************)
Next ==
    \/ Tick
    \/ OpenAddHiveModal
    \/ CloseBtnClick
    \/ WindowClick
    \/ ClickAddInspection
    \/ FillInspectionForm
    \/ HandleAddHive
    \/ HandleAddInspection
    \/ NavigateToHives
    \/ Reload

Spec == Init /\ [][Next]_vars

\* the first hive is added
AddFirstHive == NoHives(state.hives) /\ HandleAddHive

NextAI ==
    \/ AddFirstHive
    \/ Navigate
    \/ ChangeImageInput
    \/ PreviewLoaded
    \/ PreviewFailed
    \/ HandleGetAIAdvice
    \/ HandleAnalyzeImage
    \/ FileReadDone
    \/ FileReadError
    \/ RequestResolved
    \/ RequestRejected

SpecAI == Init /\ [][NextAI]_vars

(***************************************************************************)
(* Properties.                                                             *)
(***************************************************************************)
ReqIds == 1..Len(req)

\* the output region an invocation of the given kind writes to
Region(kind) == IF kind = "advice" THEN adviceResult ELSE imageResult

NoHiveHasId(hives, hiveId) == \A i \in 1..Len(hives) : hives[i].id # hiveId

\* C1: the number of hives equals the number of completed handleAddHive
\* runs, no step removes or replaces a hive, and a run of handleAddHive adds
\* exactly one hive, at the end, with no reports.
C1_HivesOnlyAdded ==
    /\ [](Len(state.hives) = addHiveCount)
    /\ [][/\ Len(state.hives') >= Len(state.hives)
          /\ \A i \in 1..Len(state.hives) :
                /\ state.hives'[i].id = state.hives[i].id
                /\ state.hives'[i].name = state.hives[i].name
                /\ state.hives'[i].location = state.hives[i].location
          /\ lastEvent' = "submitHive" =>
                /\ Len(state.hives') = Len(state.hives) + 1
                /\ addHiveCount' = addHiveCount + 1
                /\ state.hives'[Len(state.hives')].reports = <<>>]_vars

\* a second hive has just been added to a store whose first hive has a report
C1_Witness ==
    /\ lastEvent = "submitHive"
    /\ addHiveCount = 2
    /\ Len(state.hives) = 2
    /\ Len(state.hives[1].reports) > 0
    /\ state.hives[2].reports = <<>>

\* C2: a submission made after the add-inspection button of a card was
\* clicked gives the hive of that card exactly one more report, whose
\* required fields are the submitted form values.
C2_ReportGoesToClickedHive ==
    [][(lastEvent' = "submitInspection" /\ clickedCard # 0) =>
          LET old == state.hives[clickedCard].reports
              new == state.hives'[clickedCard].reports
          IN  /\ Len(new) = Len(old) + 1
              /\ \E j \in 1..Len(new) :
                    /\ RemoveAt(new, j) = old
                    /\ \A k \in RequiredFields : new[j][k] = inspectionForm[k]]_vars

\* C3: between handlers, what localStorage holds parses to the in-memory
\* state (an absent entry standing for the empty store).
C3_PersistedEqualsMemory == LoadState(storage) = state

\* C4: handleGetAIAdvice with no hives raises the 'no data' alert, issues no
\* request, and leaves the spinner and the advice region as they were.
C4_AdviceGuard ==
    [][(lastEvent' = "getAIAdvice" /\ Len(state.hives) = 0) =>
          /\ lastAlert' = NoDataAlert
          /\ apiCalls' = apiCalls
          /\ req' = req
          /\ spinner' = spinner
          /\ adviceResult' = adviceResult]_vars

\* the guard has refused while an image analysis had the spinner shown
C4_Witness ==
    /\ lastEvent = "getAIAdvice"
    /\ Len(state.hives) = 0
    /\ lastAlert = NoDataAlert
    /\ spinner = "flex"
    /\ apiCalls = 0

\* C5: handleAnalyzeImage with no file selected raises the 'no file' alert,
\* issues no request, and leaves the spinner and the image region as they
\* were.
C5_ImageGuard ==
    [][(lastEvent' = "analyzeImage" /\ Len(files) = 0) =>
          /\ lastAlert' = NoFileAlert
          /\ apiCalls' = apiCalls
          /\ req' = req
          /\ spinner' = spinner
          /\ imageResult' = imageResult]_vars

\* the guard has refused while an earlier analysis had left its result
C5_Witness ==
    /\ lastEvent = "analyzeImage"
    /\ Len(files) = 0
    /\ lastAlert = NoFileAlert
    /\ imageResult # EmptyText

\* C6: when an invocation of either AI handler fails, it finishes in that
\* step with the spinner hidden and its region holding the non-empty error
\* message of its kind, whatever else is outstanding.
C6_FailureHandled ==
    [][\A i \in ReqIds :
          (Pending(req[i]) /\ req'[i].status = "failed") =>
              /\ spinner' = "none"
              /\ ErrorOf(req[i].kind) # EmptyText
              /\ IF req[i].kind = "advice"
                 THEN adviceResult' = AdviceError
                 ELSE imageResult' = ImageError
              /\ resolvedOrder' = Append(resolvedOrder, i)]_vars

\* an image analysis has just failed while an advice request is outstanding
C6_Witness ==
    \E i, j \in ReqIds :
        /\ req[i].kind = "image"
        /\ req[i].status = "failed"
        /\ resolvedOrder # <<>>
        /\ resolvedOrder[Len(resolvedOrder)] = i
        /\ req[j].kind = "advice"
        /\ Pending(req[j])
        /\ spinner = "none"
        /\ imageResult = ImageError

\* C7: rendering the hive list twice in a row gives the same content: for
\* every reachable store the second of two consecutive renders builds what
\* the first built, each card lists its hive's reports by descending date,
\* and a navigation to the hive list leaves the list as the last render
\* left it.
C7_RenderIdempotent ==
    /\ [](LET once  == SortedHives(state.hives)
              twice == SortedHives(once)
          IN  HivesListOf(once) = HivesListOf(twice))
    /\ [](\A i \in 1..Len(state.hives) :
            LET rs == state.hives[i].reports
            IN  /\ \A j \in 1..(Len(rs) - 1) :
                      GetTime(rs[j].date) >= GetTime(rs[j + 1].date)
                /\ hivesList.cards[i].reports =
                      [j \in 1..Len(rs) |-> RenderReport(rs[j])])
    /\ [][NavigateToHives => hivesList' = hivesList]_vars

\* the list was rendered again for a hive with two reports of the same
\* instant that show different values
C7_Witness ==
    /\ lastEvent = "navigate"
    /\ \E i \in 1..Len(state.hives) :
          LET rs == state.hives[i].reports
          IN  /\ Len(rs) = 2
              /\ rs[1].date = rs[2].date
              /\ rs[1].queen # rs[2].queen
              /\ hivesList.cards[i].reports[1] = RenderReport(rs[1])
              /\ hivesList.cards[i].reports[2] = RenderReport(rs[2])

\* C8: a request's start clears its region, and once no request of a kind
\* is outstanding, the region of that kind holds what the invocation that
\* finished last wrote, whatever the order of the starts.
C8_LastResolvedWins ==
    /\ [](\A kind \in {"advice", "image"} :
            LET done == SelectSeq(resolvedOrder, LAMBDA i : req[i].kind = kind)
            IN  (done # <<>> /\ \A i \in ReqIds :
                                    req[i].kind = kind => ~Pending(req[i]))
                => Region(kind) = req[done[Len(done)]].outcome)
    /\ [][Len(req') > Len(req) =>
             IF req'[Len(req')].kind = "advice"
             THEN adviceResult' = EmptyText
             ELSE imageResult' = EmptyText]_vars

\* two overlapping advice requests: the second to start finished first, and
\* the region shows the outcome of the first
C8_Witness ==
    /\ Len(req) = 2
    /\ req[1].kind = "advice"
    /\ req[2].kind = "advice"
    /\ resolvedOrder = <<2, 1>>
    /\ req[1].outcome # req[2].outcome
    /\ adviceResult = req[1].outcome

\* C9: a submission whose hive identifier matches no hive changes nothing:
\* no report, no write to localStorage, no alert or message, and the dialog
\* and the form as they were.
C9_MissingHiveAborts ==
    [][(lastEvent' = "submitInspection"
            /\ NoHiveHasId(state.hives, inspectionHiveId)) =>
          /\ UNCHANGED <<state, storage, hivesList>>
          /\ UNCHANGED <<addHiveModal, addInspectionModal, inspectionForm,
                         feedingAmountGroup, inspectionHiveId>>
          /\ UNCHANGED <<lastAlert, adviceResult, imageResult>>]_vars

\* a filled form was submitted with an identifier no hive of the store has
C9_Witness ==
    /\ lastEvent = "submitInspection"
    /\ Len(state.hives) > 0
    /\ NoHiveHasId(state.hives, inspectionHiveId)
    /\ FormValid(inspectionForm)
    /\ storage = JSONstringify(state)

\* C10: whenever an AI request is outstanding the spinner is shown.
C10_SpinnerWhilePending ==
    (\E i \in ReqIds : Pending(req[i])) => spinner = "flex"

\* C10 as amended: the spinner is shown by every start and hidden only by
\* an invocation finishing; while it is shown an AI request is outstanding.
C10_SpinnerFollowsLastEvent ==
    /\ [](spinner = "flex" => \E i \in ReqIds : Pending(req[i]))
    /\ [][/\ Len(req') > Len(req) => spinner' = "flex"
          /\ (spinner = "flex" /\ spinner' = "none") =>
                Len(resolvedOrder') = Len(resolvedOrder) + 1]_vars

\* one of two overlapping requests has finished: the other is outstanding
\* and the spinner is hidden
C10_Witness ==
    /\ spinner = "none"
    /\ \E i, j \in ReqIds :
          /\ Pending(req[i])
          /\ ~Pending(req[j])
          /\ j > i

=============================================================================
